---- MODULE Spec2Model ----
(***************************************************************************)
(* Model of src/ecoatlas/scripts/edgar/aggregate_bbox.py: the bounding-box *)
(* aggregator.  One run of main() is a sequence of steps over the list of  *)
(* input datasets; parse_bbox and extract_year_from_filename are operators *)
(* on character sequences.                                                 *)
(*                                                                         *)
(* Conventions of the model:                                               *)
(*  - a Python str is a sequence of one-character strings;                 *)
(*  - a float is an integer (whole degrees, whole units): the arithmetic   *)
(*    the program does on them (%, <, sum) is exact on such values;        *)
(*  - a timestamp is a number of months since year 0;                      *)
(*  - a grid cell is <<v>> (a value) or <<>> (missing, NaN);               *)
(*  - what the xarray calls do (label slicing on a monotonic coordinate,   *)
(*    skipna sum, sel on a time label) is written out as the library       *)
(*    computes it, at the line of main() that makes the call.              *)
(***************************************************************************)
EXTENDS Integers, Sequences, FiniteSets, TLC

VARIABLES
    args,         \* parsed command line: [input, bbox, var] (argparse namespace)
    files,        \* files[k]: the dataset xr.open_dataset returns for input path k
    pc,           \* position of main(): start, open, check_var, normalize,
                  \* slice, label, finish, done, failed
    error,        \* the exception that ended the run, or "none"
    bbox,         \* working [lon_min, lat_min, lon_max, lat_max]
    input_paths,  \* args.input.split(",")
    idx,          \* 1-based position of the for loop in input_paths
    series,       \* list of [date, value]
    dataset,      \* local `dataset`: source whose Dataset it is bound to (0: unbound)
    data,         \* local `data`: source whose lazily loaded variable it is bound to
    sliced,       \* local `sliced`: source whose lazily indexed slice it is bound to
    summed,       \* local `summed`: one sum per time position (one for a scalar)
    handles,      \* sources whose dataset handle is open
    output        \* the output file: [written, content]

vars == <<args, files, pc, error, bbox, input_paths, idx, series, dataset,
          data, sliced, summed, handles, output>>

(***************************** bounds **************************************)
\* longest input list of the main specification
MaxSources == 2
\* most comma-separated tokens of a --bbox string in SpecParse
MaxBBoxTokens == 5
\* most underscore-separated tokens of a file name in SpecYear
MaxNameTokens == 3

(************************ program constants ********************************)
\* len(parts) != 4
BBoxLen == 4
\* len(part) == 4
YearLen == 4
\* lon.max() > 180
HalfCircle == 180
\* lon_min % 360
FullCircle == 360

(***************************** strings *************************************)
Digits == <<"0", "1", "2", "3", "4", "5", "6", "7", "8", "9">>

IsDigit(c) == \E i \in 1..10 : Digits[i] = c

DigitVal(c) == (CHOOSE i \in 1..10 : Digits[i] = c) - 1

\* code point order of the characters a date label is made of
Ord(c) == IF IsDigit(c) THEN 48 + DigitVal(c) ELSE 0

\* str.isdigit(): non-empty and every character a digit
isdigit(s) == Len(s) >= 1 /\ \A i \in 1..Len(s) : IsDigit(s[i])

RECURSIVE SplitAcc(_, _, _, _, _)
SplitAcc(s, sep, i, cur, acc) ==
    IF i > Len(s) THEN Append(acc, cur)
    ELSE IF s[i] = sep THEN SplitAcc(s, sep, i + 1, <<>>, Append(acc, cur))
    ELSE SplitAcc(s, sep, i + 1, Append(cur, s[i]), acc)

\* str.split(sep): the tokens between separators, at least one
split(s, sep) == SplitAcc(s, sep, 1, <<>>, <<>>)

RECURSIVE Join(_, _)
Join(toks, sep) ==
    IF Len(toks) = 0 THEN <<>>
    ELSE IF Len(toks) = 1 THEN toks[1]
    ELSE toks[1] \o <<sep>> \o Join(Tail(toks), sep)

\* Python's < on str: lexicographic by code point, a proper prefix first
RECURSIVE StrLess(_, _)
StrLess(a, b) ==
    IF Len(b) = 0 THEN FALSE
    ELSE IF Len(a) = 0 THEN TRUE
    ELSE IF Ord(a[1]) # Ord(b[1]) THEN Ord(a[1]) < Ord(b[1])
    ELSE StrLess(Tail(a), Tail(b))

(***************************** float() *************************************)
\* The literals float() accepts among tokens written with digits, signs and
\* letters: an optional sign and at least one digit.
FloatBody(tok) == IF Len(tok) >= 1 /\ tok[1] \in {"-", "+"} THEN Tail(tok) ELSE tok

IsFloatLiteral(tok) == isdigit(FloatBody(tok))

RECURSIVE DigitsValue(_)
DigitsValue(ds) ==
    IF Len(ds) = 0 THEN 0
    ELSE 10 * DigitsValue(SubSeq(ds, 1, Len(ds) - 1)) + DigitVal(ds[Len(ds)])

float(tok) ==
    IF Len(tok) >= 1 /\ tok[1] = "-" THEN 0 - DigitsValue(FloatBody(tok))
    ELSE DigitsValue(FloatBody(tok))

(**************************** parse_bbox ***********************************)
\* mutant: the length test accepts any list of at least four values
parse_bbox_AtLeastFour(value) ==
    LET toks == split(value, ",") IN
    IF \E i \in 1..Len(toks) : ~IsFloatLiteral(toks[i]) THEN [ok |-> FALSE, parts |-> <<>>]
    ELSE IF Len(toks) < BBoxLen THEN [ok |-> FALSE, parts |-> <<>>]
    ELSE [ok |-> TRUE, parts |-> [i \in 1..BBoxLen |-> float(toks[i])]]

\* parts = [float(x) ...] raises ValueError on the first non-numeric token,
\* then the length test raises ValueError; otherwise the list is returned.
parse_bbox(value) ==
    LET toks == split(value, ",") IN
    IF \E i \in 1..Len(toks) : ~IsFloatLiteral(toks[i]) THEN [ok |-> FALSE, parts |-> <<>>]
    ELSE IF Len(toks) # BBoxLen THEN [ok |-> FALSE, parts |-> <<>>]
    ELSE [ok |-> TRUE, parts |-> [i \in 1..Len(toks) |-> float(toks[i])]]

(********************* extract_year_from_filename **************************)
None == <<>>

RECURSIVE FirstYearToken(_)
FirstYearToken(parts) ==
    IF Len(parts) = 0 THEN None
    ELSE IF isdigit(parts[1]) /\ Len(parts[1]) = YearLen THEN parts[1]
    ELSE FirstYearToken(Tail(parts))

\* mutant: the length test is >= instead of ==
RECURSIVE FirstLongDigitToken(_)
FirstLongDigitToken(parts) ==
    IF Len(parts) = 0 THEN None
    ELSE IF isdigit(parts[1]) /\ Len(parts[1]) >= YearLen THEN parts[1]
    ELSE FirstLongDigitToken(Tail(parts))

extract_year_AtLeastFour(filename) == FirstLongDigitToken(split(filename, "_"))

extract_year_from_filename(filename) == FirstYearToken(split(filename, "_"))

\* Path(p).name: trailing slashes dropped, then what follows the last slash
RECURSIVE StripSlashes(_)
StripSlashes(p) ==
    IF Len(p) >= 1 /\ p[Len(p)] = "/" THEN StripSlashes(SubSeq(p, 1, Len(p) - 1)) ELSE p

PathName(p) ==
    LET q == StripSlashes(p)
        comps == split(q, "/")
    IN comps[Len(comps)]

(***************************** datasets ************************************)
\* A dataset as xr.open_dataset returns it:
\*   vars     names of its data variables
\*   hasLon   whether the variable has a "lon" coordinate
\*   lon, lat coordinate labels, in index order (monotonic, no repeats)
\*   hasTime  whether the variable has a "time" dimension with a coordinate
\*   time     the time labels, in axis order
\*   vals     vals[t][i][j]: the cell at time position t, lat position i,
\*            lon position j (one time position when there is no time axis)
NaN == <<>>

V(x) == <<x>>

RECURSIVE SeqMax(_)
SeqMax(s) ==
    IF Len(s) = 1 THEN s[1]
    ELSE LET m == SeqMax(Tail(s)) IN IF s[1] > m THEN s[1] ELSE m

\* data.coords.get("lon") is not None and lon.max() > 180
UsesWrappedLongitudes(ds) == ds.hasLon /\ SeqMax(ds.lon) > HalfCircle

(************************ longitude normalization **************************)
\* mutant: the remainder keeps the sign of the dividend, as C's fmod does
NormalizeLonTruncating(x) ==
    IF x >= 0 THEN x % FullCircle ELSE 0 - ((0 - x) % FullCircle)

\* x % 360 on Python numbers: the result has the sign of the divisor
NormalizeLon(x) == x % FullCircle

\* mutant: each source starts again from the values parse_bbox returned
NormalizeBBoxFromOriginal(b, ds) ==
    LET o == parse_bbox(args.bbox).parts IN
    IF UsesWrappedLongitudes(ds)
    THEN [b EXCEPT !.lon_min = o[1] % FullCircle, !.lon_max = o[3] % FullCircle]
    ELSE [b EXCEPT !.lon_min = o[1], !.lon_max = o[3]]

\* lines 43-47: the working values are reassigned in place
NormalizeBBox(b, ds) ==
    IF UsesWrappedLongitudes(ds)
    THEN [b EXCEPT !.lon_min = NormalizeLon(@), !.lon_max = NormalizeLon(@)]
    ELSE b

(************************** spatial reduction ******************************)
IsIncreasing(coord) == \A i, j \in 1..Len(coord) : i < j => coord[i] < coord[j]

\* how many labels of the coordinate lie in the set S
CountIn(coord, S) == Cardinality({i \in 1..Len(coord) : coord[i] \in S})

\* .sel(dim=slice(lo, hi)) on a monotonic coordinate index: the index's
\* slice_locs.  Increasing: searchsorted(lo, "left") and searchsorted(hi,
\* "right").  Decreasing: the same searches on the reversed index, counted
\* from the end.  The result is the 0-based half-open range [start, stop).
SliceLocs(coord, lo, hi) ==
    LET labels == {coord[i] : i \in 1..Len(coord)} IN
    IF IsIncreasing(coord)
    THEN [start |-> CountIn(coord, {x \in labels : x < lo}),
          stop  |-> CountIn(coord, {x \in labels : x <= hi})]
    ELSE [start |-> CountIn(coord, {x \in labels : x > lo}),
          stop  |-> CountIn(coord, {x \in labels : x >= hi})]

\* the part of a sequence a Python slice [start:stop] keeps
PySlice(s, loc) == SubSeq(s, loc.start + 1, loc.stop)

RECURSIVE NanSum(_)
\* sum(skipna=True) of a list of cells: a missing cell adds nothing
NanSum(cells) ==
    IF Len(cells) = 0 THEN 0
    ELSE (IF cells[1] = NaN THEN 0 ELSE cells[1][1]) + NanSum(Tail(cells))

RECURSIVE SumRows(_)
SumRows(rows) == IF Len(rows) = 0 THEN 0 ELSE NanSum(rows[1]) + SumRows(Tail(rows))

\* lines 49-50 at one time position: slice rows by lat, columns by lon, sum
SliceAndSum(ds, grid, b) ==
    LET latloc == SliceLocs(ds.lat, b.lat_min, b.lat_max)
        lonloc == SliceLocs(ds.lon, b.lon_min, b.lon_max)
        rows   == PySlice(grid, latloc)
    IN SumRows([i \in 1..Len(rows) |-> PySlice(rows[i], lonloc)])

(**************************** temporal labels ******************************)
\* str(np.datetime64(t, "Y")).split("-")[0]: the year of the timestamp,
\* written with four digits
YearLabel(t) ==
    LET y == t \div 12 IN
    <<Digits[((y \div 1000) % 10) + 1], Digits[((y \div 100) % 10) + 1],
      Digits[((y \div 10) % 10) + 1], Digits[(y % 10) + 1]>>

\* summed.sel(time=time_value): the positions carrying that label
TimeMatches(ds, tv) == {i \in 1..Len(ds.time) : ds.time[i] = tv}

\* float(...) of the selection: it must hold exactly one value
SelectsOne(ds, k) == Cardinality(TimeMatches(ds, ds.time[k])) = 1

\* first position of the for loop over summed["time"].values at which
\* float() raises (0: none)
FirstFailingTime(ds) ==
    IF \A k \in 1..Len(ds.time) : SelectsOne(ds, k) THEN 0
    ELSE CHOOSE k \in 1..Len(ds.time) :
            /\ ~SelectsOne(ds, k)
            /\ \A j \in 1..(k - 1) : SelectsOne(ds, j)

\* the points lines 53-56 append for time positions 1..n
TimePoints(ds, sums, n) ==
    [k \in 1..n |-> [date  |-> YearLabel(ds.time[k]),
                     value |-> sums[CHOOSE i \in TimeMatches(ds, ds.time[k]) : TRUE]]]

(******************************** sorted ***********************************)
RECURSIVE InsertByDate(_, _)
\* p goes after every element whose date is not greater: a stable insertion
InsertByDate(p, s) ==
    IF Len(s) = 0 THEN <<p>>
    ELSE IF StrLess(p.date, s[1].date) THEN <<p>> \o s
    ELSE <<s[1]>> \o InsertByDate(p, Tail(s))

RECURSIVE StableSort(_)
StableSort(s) ==
    IF Len(s) = 0 THEN <<>>
    ELSE InsertByDate(s[Len(s)], StableSort(SubSeq(s, 1, Len(s) - 1)))

\* mutant: the series is written in the order it was appended
UnsortedSeries(s) == s

\* sorted(series, key=lambda x: x["date"])
SortedByDate(s) == StableSort(s)

\* mutant: the variable test is dropped
AlwaysHasVariable(ds, name) == TRUE

\* args.var in dataset
HasVariable(ds, name) == name \in ds.vars

(************************* inputs of the model *****************************)
VarName == "emissions"

LatUp == <<0, 1>>
LatDown == <<1, 0>>
\* longitudes in the -180..180 convention and in the 0..360 convention
LonStd == <<-10, 0, 10>>
LonWrapped == <<0, 10, 350>>

GridA == <<<<V(1), NaN, V(4)>>, <<V(2), V(3), V(8)>>>>
GridB == <<<<V(16), V(32), NaN>>, <<NaN, V(64), V(128)>>>>
GridC == <<<<NaN, NaN, NaN>>, <<V(256), NaN, V(512)>>>>

Scalar(lon, lat, grid) ==
    [vars |-> {VarName}, hasLon |-> TRUE, lon |-> lon, lat |-> lat,
     hasTime |-> FALSE, time |-> <<>>, vals |-> <<grid>>]

Timed(lon, lat, time, grids) ==
    [vars |-> {VarName}, hasLon |-> TRUE, lon |-> lon, lat |-> lat,
     hasTime |-> TRUE, time |-> time, vals |-> grids]

\* month m (1..12) of year y
Month(y, m) == y * 12 + (m - 1)

\* The files of the main specification: path and content.
Catalogue ==
    { [path |-> <<"d", "/", "e", "_", "2", "0", "2", "1", "_", "v", "2", ".", "n", "c">>, ds |-> Scalar(LonWrapped, LatUp, GridA)],
      [path |-> <<"e", "_", "2", "0", "1", "9", "_", "x", ".", "n", "c">>, ds |-> Scalar(LonStd, LatUp, GridB)],
      [path |-> <<"e", "_", "2", "0", "1", "9", ".", "n", "c">>, ds |-> Scalar(LonStd, LatUp, GridA)],
      [path |-> <<"e", "_", "v", "2", ".", "n", "c">>, ds |-> Scalar(LonWrapped, LatUp, GridB)],
      [path |-> <<"t", ".", "n", "c">>, ds |-> Timed(LonStd, LatUp,
                <<Month(2019, 1), Month(2019, 7), Month(2020, 1)>>, <<GridA, GridB, GridC>>)],
      [path |-> <<"w", "_", "2", "0", "0", "0", "_", "v", ".", "n", "c">>, ds |-> Timed(LonWrapped, LatUp,
                <<Month(2021, 3), Month(2020, 3)>>, <<GridB, GridC>>)],
      [path |-> <<"u", ".", "n", "c">>, ds |-> Timed(LonStd, LatUp,
                <<Month(2019, 1), Month(2019, 1)>>, <<GridA, GridC>>)],
      [path |-> <<"n", "_", "2", "0", "2", "0", "_", "v", ".", "n", "c">>, ds |-> [Scalar(LonStd, LatUp, GridA) EXCEPT !.vars = {"other"}]],
      [path |-> <<"z", "_", "2", "0", "2", "0", "_", "v", ".", "n", "c">>, ds |-> [Scalar(LonStd, LatUp, GridC) EXCEPT !.hasLon = FALSE]],
      [path |-> <<"s", "_", "2", "0", "1", "8", "_", "d", ".", "n", "c">>, ds |-> Scalar(LonStd, LatDown, GridA)] }

SeqsUpTo(S, n) == UNION {[1..k -> S] : k \in 1..n}

BBoxArgs ==
    { <<"-", "1", "0", ",", "0", ",", "1", "0", ",", "1">>, <<"0", ",", "0", ",", "3", "7", "0", ",", "1">>, <<"5", ",", "1", ",", "2", "0", ",", "1">>, <<"4", "0", "0", ",", "5", ",", "5", "0", "0", ",", "9">>, <<"-", "1", "0", ",", "0", ",", "1", "0">>, <<"x", ",", "0", ",", "1", "0", ",", "1">> }

InitRun(sources, bboxArg) ==
    /\ args = [input |-> Join([k \in 1..Len(sources) |-> sources[k].path], ","),
               bbox |-> bboxArg, var |-> VarName]
    /\ files = [k \in 1..Len(sources) |-> sources[k].ds]
    /\ pc = "start"
    /\ error = "none"
    /\ bbox = [lon_min |-> 0, lat_min |-> 0, lon_max |-> 0, lat_max |-> 0]
    /\ input_paths = <<>>
    /\ idx = 0
    /\ series = <<>>
    /\ dataset = 0
    /\ data = 0
    /\ sliced = 0
    /\ summed = <<>>
    /\ handles = {}
    /\ output = [written |-> FALSE, content |-> <<>>]

Init ==
    \E sources \in SeqsUpTo(Catalogue, MaxSources), b \in BBoxArgs : InitRun(sources, b)

(******************************* main() ************************************)
cur == files[idx]

\* An exception leaves main(): the process ends, nothing else runs.
Raise(e) ==
    /\ pc' = "failed"
    /\ error' = e

\* A handle stays open while a local still refers to its dataset, to the
\* variable read lazily from it, or to a lazy slice of that variable.
StillReferenced(hs, d, v, sl) == {h \in hs : h \in {d, v, sl}}

\* lines 31-33
ParseArgs ==
    /\ pc = "start"
    /\ LET r == parse_bbox(args.bbox) IN
       IF ~r.ok
       THEN /\ Raise("InvalidArgument")
            /\ UNCHANGED <<bbox, input_paths, idx, series>>
       ELSE /\ bbox' = [lon_min |-> r.parts[1], lat_min |-> r.parts[2],
                        lon_max |-> r.parts[3], lat_max |-> r.parts[4]]
            /\ series' = <<>>
            /\ input_paths' = split(args.input, ",")
            /\ idx' = 1
            /\ pc' = "open"
            /\ error' = error
    /\ UNCHANGED <<args, files, dataset, data, sliced, summed, handles, output>>

\* line 36: the new dataset is opened, then `dataset` is rebound to it
OpenDataset ==
    /\ pc = "open"
    /\ dataset' = idx
    /\ handles' = StillReferenced(handles \cup {idx}, idx, data, sliced)
    /\ pc' = "check_var"
    /\ UNCHANGED <<args, files, error, bbox, input_paths, idx, series, data,
                   sliced, summed, output>>

\* lines 37-40
CheckVar ==
    /\ pc = "check_var"
    /\ IF ~HasVariable(cur, args.var)
       THEN /\ Raise("VariableNotFound")
            /\ UNCHANGED <<data, handles>>
       ELSE /\ data' = idx
            /\ handles' = StillReferenced(handles, dataset, idx, sliced)
            /\ pc' = "normalize"
            /\ error' = error
    /\ UNCHANGED <<args, files, bbox, input_paths, idx, series, dataset, sliced,
                   summed, output>>

\* lines 43-47
Normalize ==
    /\ pc = "normalize"
    /\ bbox' = NormalizeBBox(bbox, cur)
    /\ pc' = "slice"
    /\ UNCHANGED <<args, files, error, input_paths, idx, series, dataset, data,
                   sliced, summed, handles, output>>

\* lines 49-50.  Without a "lon" coordinate there is no index to select
\* labels on, and .sel raises (KeyError when the variable has no such
\* dimension, TypeError on the float bounds when the dimension has no index).
SliceSum ==
    /\ pc = "slice"
    /\ IF ~cur.hasLon
       THEN /\ Raise("IndexingError")
            /\ UNCHANGED <<sliced, summed, handles>>
       ELSE /\ sliced' = idx
            /\ handles' = StillReferenced(handles, dataset, data, idx)
            /\ summed' = [t \in 1..Len(cur.vals) |-> SliceAndSum(cur, cur.vals[t], bbox)]
            /\ pc' = "label"
            /\ error' = error
    /\ UNCHANGED <<args, files, bbox, input_paths, idx, series, dataset, data, output>>

\* end of the loop body: next source, or the code after the loop
NextSource ==
    /\ idx' = IF idx < Len(input_paths) THEN idx + 1 ELSE idx
    /\ pc' = IF idx < Len(input_paths) THEN "open" ELSE "finish"
    /\ error' = error

\* lines 52-62
Label ==
    /\ pc = "label"
    /\ IF cur.hasTime
       THEN LET bad == FirstFailingTime(cur) IN
            IF bad # 0
            THEN /\ series' = series \o TimePoints(cur, summed, bad - 1)
                 /\ Raise("TypeError")
                 /\ idx' = idx
            ELSE /\ series' = series \o TimePoints(cur, summed, Len(cur.time))
                 /\ NextSource
       ELSE LET year == extract_year_from_filename(PathName(input_paths[idx])) IN
            IF year = None
            THEN /\ Raise("MissingYear")
                 /\ UNCHANGED <<series, idx>>
            ELSE /\ series' = Append(series, [date |-> year, value |-> summed[1]])
                 /\ NextSource
    /\ UNCHANGED <<args, files, bbox, input_paths, dataset, data, sliced, summed,
                   handles, output>>

\* lines 64-68
SortAndWrite ==
    /\ pc = "finish"
    /\ series' = SortedByDate(series)
    /\ output' = [written |-> TRUE, content |-> series']
    /\ pc' = "done"
    /\ UNCHANGED <<args, files, error, bbox, input_paths, idx, dataset, data,
                   sliced, summed, handles>>

Next ==
    \/ ParseArgs
    \/ OpenDataset
    \/ CheckVar
    \/ Normalize
    \/ SliceSum
    \/ Label
    \/ SortAndWrite

Spec == Init /\ [][Next]_vars

(********************* specifications of the functions *********************)
\* parse_bbox on every string of up to MaxBBoxTokens tokens, in a run over
\* one well-formed file
BBoxTokens == { <<"-", "1", "0">>, <<"1", "0">>, <<"+", "5">>, <<"x">>, <<>> }

InitParse ==
    \E toks \in SeqsUpTo(BBoxTokens, MaxBBoxTokens) :
        InitRun(<<[path |-> <<"e", "_", "2", "0", "1", "9", "_", "x", ".", "n", "c">>, ds |-> Scalar(LonStd, LatUp, GridB)]>>, Join(toks, ","))

SpecParse == InitParse /\ [][Next]_vars

\* extract_year_from_filename on every file name of up to MaxNameTokens
\* tokens, below a directory or not, in a run over that one scalar file
NameTokens == { <<"2", "0", "2", "1">>, <<"2", "0", "1", "9">>, <<"2", "0", "2", "1", "2">>, <<"2", "0", "2">>, <<"2", "0", "2", "1", ".", "n", "c">>, <<"v", "2">>, <<>> }

Directories == { <<>>, <<"d", "_", "1", "9", "9", "9", "/">> }

InitYear ==
    \E toks \in SeqsUpTo(NameTokens, MaxNameTokens), dir \in Directories :
        /\ dir \o Join(toks, "_") # <<>>
        /\ InitRun(<<[path |-> dir \o Join(toks, "_"), ds |-> Scalar(LonStd, LatUp, GridA)]>>, <<"-", "1", "0", ",", "0", ",", "1", "0", ",", "1">>)

SpecYear == InitYear /\ [][Next]_vars

(************************ vocabulary of the claims *************************)
\* the four values parse_bbox returned for --bbox
Parsed == parse_bbox(args.bbox).parts

\* the grid has a longitude coordinate with a value above 180
HasLonAbove180(ds) == ds.hasLon /\ \E i \in 1..Len(ds.lon) : ds.lon[i] > 180

\* the final path component: the last non-empty run of characters between
\* slashes
FinalComponent(p) ==
    LET chars == {i \in 1..Len(p) : p[i] # "/"}
        last == IF chars = {} THEN 0 ELSE CHOOSE i \in chars : \A j \in chars : j <= i
        slashes == {i \in 1..last : p[i] = "/"}
        before == IF slashes = {} THEN 0 ELSE CHOOSE i \in slashes : \A j \in slashes : j <= i
    IN SubSeq(p, before + 1, last)

\* positions i..i+3 of name are a whole underscore-delimited token of four digits
YearTokenAt(name, i) ==
    /\ i >= 1
    /\ i + 3 <= Len(name)
    /\ \A k \in i..(i + 3) : name[k] \in {"0", "1", "2", "3", "4", "5", "6", "7", "8", "9"}
    /\ i = 1 \/ name[i - 1] = "_"
    /\ i + 3 = Len(name) \/ name[i + 4] = "_"

HasYearToken(name) == \E i \in 1..Len(name) : YearTokenAt(name, i)

FirstYearTokenOf(name) ==
    LET i == CHOOSE k \in 1..Len(name) :
                 YearTokenAt(name, k) /\ \A j \in 1..(k - 1) : ~YearTokenAt(name, j)
    IN SubSeq(name, i, i + 3)

\* source k raises one of the two errors of the claim
RaisesAt(k) ==
    \/ args.var \notin files[k].vars
    \/ ~files[k].hasTime /\ ~HasYearToken(FinalComponent(input_paths[k]))

\* lexicographic <= on strings, by position
LexLeq(a, b) ==
    \/ Len(a) <= Len(b) /\ \A j \in 1..Len(a) : a[j] = b[j]
    \/ \E i \in 1..Len(a) :
          /\ i <= Len(b)
          /\ \A j \in 1..(i - 1) : a[j] = b[j]
          /\ Ord(a[i]) < Ord(b[i])

Occurrences(s, x) == Cardinality({i \in 1..Len(s) : s[i] = x})

IsPermutation(a, b) ==
    /\ Len(a) = Len(b)
    /\ \A i \in 1..Len(a) : Occurrences(a, a[i]) = Occurrences(b, a[i])

RECURSIVE SumOver(_, _)
SumOver(S, f) ==
    IF S = {} THEN 0
    ELSE LET x == CHOOSE y \in S : TRUE IN f[x] + SumOver(S \ {x}, f)

\* sum of the non-missing cells whose labels lie in the box, bounds included
BoxSum(ds, grid, b) ==
    LET cells == {c \in (1..Len(ds.lat)) \X (1..Len(ds.lon)) :
                     /\ b.lat_min <= ds.lat[c[1]] /\ ds.lat[c[1]] <= b.lat_max
                     /\ b.lon_min <= ds.lon[c[2]] /\ ds.lon[c[2]] <= b.lon_max
                     /\ Len(grid[c[1]][c[2]]) = 1}
    IN SumOver(cells, [c \in cells |-> grid[c[1]][c[2]][1]])

(******************************** claims ***********************************)
\* C1: an error while processing source k aborts the run at source k: no
\* later source is opened and the output file is never written; the output
\* is written only when no source raised.
C1_ErrorAbortsWithoutOutput ==
    /\ pc = "failed" => /\ ~output.written
                        /\ \A h \in handles \cup {dataset, data, sliced} : h <= idx
    /\ pc # "start" =>
          \A k \in 1..Len(input_paths) :
              RaisesAt(k) => /\ idx <= k
                             /\ ~output.written
                             /\ pc \notin {"finish", "done"}
    /\ output.written => error = "none" /\ idx = Len(input_paths)

\* C1 witness: the second source fails after the first contributed a point
C1_Witness ==
    /\ pc = "failed"
    /\ error = "MissingYear"
    /\ idx = 2
    /\ Len(series) >= 1
    /\ ~output.written

\* C2: the written series is a permutation of the appended points (none
\* dropped, summed or merged) in ascending string order of the period.
C2_SortedPermutation ==
    [][pc = "finish" =>
         /\ IsPermutation(series', series)
         /\ \A i \in 1..(Len(series') - 1) : LexLeq(series'[i].date, series'[i + 1].date)
         /\ output'.written
         /\ output'.content = series']_vars

\* C2 witness: a finished run whose first source lists a later year first
\* and whose output holds two points of the same period
C2_Witness ==
    /\ pc = "done"
    /\ files[1].hasTime
    /\ files[1].time[1] > files[1].time[2]
    /\ \E i \in 1..(Len(output.content) - 1) : output.content[i].date = output.content[i + 1].date
    /\ Len(output.content) >= 3

C4_UnwrappedUsesOriginal ==
    pc = "slice" /\ ~HasLonAbove180(cur) =>
        /\ bbox.lon_min = Parsed[1]
        /\ bbox.lon_max = Parsed[3]

\* C5 (as claimed): each reduced value is the sum of the non-missing cells
\* whose lon and lat labels lie in the box, 0 when there are none.
C5_SumOfCellsInBox ==
    pc = "label" =>
        /\ Len(summed) = Len(cur.vals)
        /\ \A t \in 1..Len(summed) : summed[t] = BoxSum(cur, cur.vals[t], bbox)

\* C5 on grids whose latitudes and longitudes both increase
C5_HoldsOnIncreasingGrids ==
    pc = "label" /\ IsIncreasing(cur.lat) /\ IsIncreasing(cur.lon) =>
        \A t \in 1..Len(summed) : summed[t] = BoxSum(cur, cur.vals[t], bbox)

\* C6 (as claimed): a source with a time coordinate contributes one point
\* per time position, in axis order, labelled with the year of that timestamp
\* and carrying the sum at that position, also when timestamps are equal.
C6_OnePointPerTimeValue ==
    [][pc = "label" /\ cur.hasTime =>
         /\ pc' # "failed"
         /\ series' = series \o [k \in 1..Len(cur.time) |->
                                   [date |-> YearLabel(cur.time[k]), value |-> summed[k]]]]_vars

\* C6 on sources whose timestamps are pairwise different
C6_HoldsOnDistinctTimes ==
    [][pc = "label" /\ cur.hasTime
         /\ (\A i, j \in 1..Len(cur.time) : i # j => cur.time[i] # cur.time[j]) =>
         /\ pc' # "failed"
         /\ series' = series \o [k \in 1..Len(cur.time) |->
                                   [date |-> YearLabel(cur.time[k]), value |-> summed[k]]]]_vars

\* C7: a source without a time coordinate contributes exactly one point,
\* labelled with the first underscore-delimited token of the file name that
\* is four digits; without such a token the run fails with MissingYear.
C7_FirstFourDigitToken ==
    [][pc = "label" /\ ~cur.hasTime =>
         LET name == FinalComponent(input_paths[idx]) IN
         IF HasYearToken(name)
         THEN /\ series' = Append(series, [date |-> FirstYearTokenOf(name), value |-> summed[1]])
              /\ pc' # "failed"
         ELSE /\ pc' = "failed"
              /\ error' = "MissingYear"
              /\ series' = series]_vars

\* C7 witness: the name holds a five-digit token, then two years; the first
\* year is the label
C7_Witness ==
    /\ pc = "finish"
    /\ FinalComponent(input_paths[1]) = <<"2", "0", "2", "1", "2", "_", "2", "0", "1", "9", "_", "2", "0", "2", "1">>
    /\ Len(series) = 1
    /\ series[1].date = <<"2", "0", "1", "9">>

\* C8: parse_bbox returns the four values in order for a string of exactly
\* four numeric tokens and fails for every other string; no ordering check.
NumericToken(t) ==
    \E n \in 1..Len(t) :
        /\ \A k \in (Len(t) - n + 1)..Len(t) : IsDigit(t[k])
        /\ \/ n = Len(t)
           \/ n = Len(t) - 1 /\ t[1] \in {"-", "+"}

Commas(s) == {i \in 1..Len(s) : s[i] = ","}

\* the k-th comma-separated token of a string with exactly three commas
TokenOf(s, k) ==
    LET at(n) == IF n = 0 THEN 0
                 ELSE IF n = 4 THEN Len(s) + 1
                 ELSE CHOOSE i \in Commas(s) : Cardinality({j \in Commas(s) : j < i}) = n - 1
    IN SubSeq(s, at(k - 1) + 1, at(k) - 1)

FourNumericTokens(s) ==
    /\ Cardinality(Commas(s)) = 3
    /\ \A k \in 1..4 : NumericToken(TokenOf(s, k))

C8_ParseBBox ==
    pc # "start" =>
        IF FourNumericTokens(args.bbox)
        THEN /\ error # "InvalidArgument"
             /\ pc = "open" /\ idx = 1 =>
                   bbox = [lon_min |-> float(TokenOf(args.bbox, 1)),
                           lat_min |-> float(TokenOf(args.bbox, 2)),
                           lon_max |-> float(TokenOf(args.bbox, 3)),
                           lat_max |-> float(TokenOf(args.bbox, 4))]
        ELSE /\ pc = "failed"
             /\ error = "InvalidArgument"
             /\ ~output.written

\* C8 witness: a box whose minimum exceeds its maximum is returned as given
C8_Witness ==
    /\ pc = "open"
    /\ idx = 1
    /\ args.bbox = <<"1", "0", ",", "-", "1", "0", ",", "-", "1", "0", ",", "+", "5">>
    /\ bbox = [lon_min |-> 10, lat_min |-> -10, lon_max |-> -10, lat_max |-> 5]

\* C9: the working longitudes are never reset: source N is sliced with the
\* parsed values modulo 360 as soon as source N or any source before it has
\* a longitude maximum above 180, and with the parsed values otherwise.
NormalizedSources ==
    IF pc \in {"slice", "label", "finish", "done"} THEN idx ELSE idx - 1

C10_AtMostOneHandle == Cardinality(handles) <= 1

\* sources are opened one after another, in list order
C10_OpenedInOrder ==
    /\ handles \subseteq 1..idx
    /\ dataset \in {0, idx, idx - 1}

====
